---- MODULE Spec2Model ----
(***************************************************************************)
(* snakecord: the heartbeat worker thread (connections/worker.py), the     *)
(* connection counters (connections/base.py), the shard message handler    *)
(* (connections/shard.py) and the connection registry (manager.py).        *)
(*                                                                         *)
(* Two threads share the state: the worker thread (ConnectionWorker.run)   *)
(* and the event-loop thread (create_connection, ws_text_received,         *)
(* shutdown).  Each action is one step between two accesses to shared      *)
(* state, so that the interleavings the interpreter allows are explored.   *)
(* Time is a discrete clock; it advances only when neither thread can      *)
(* take a step (the worker is blocked in select or is not running).        *)
(*                                                                         *)
(* The audio player (audio/send.py) is a coroutine of the event loop: its  *)
(* actions are the runs of start() between two suspensions (the stream,    *)
(* the gate _start_playing, the pacing sleep).  SpecAudio runs it alone,   *)
(* from the first frame and from the frames before the two counters wrap.  *)
(***************************************************************************)
EXTENDS Integers, Sequences, FiniteSets, TLC

\* ---------------------------------------------------------------- bounds
MaxConns == 1
MaxTime == 2
MaxBeats == 1
MaxInterval == 1
MaxChan == 1
MaxFrames == 3
MaxClock == 13
MaxListeners == 2
MaxDispatch == 2

\* ------------------------------------------------------------- constants
\* float('inf'): larger than every time the model reaches
Inf == 999
\* WorkerOpcode
WAKEUP == 0
SHUTDOWN == 1
\* ShardOpcode: the opcodes ws_text_received handles, and every value of "op"
DISPATCH == 0
HEARTBEAT == 1
HELLO == 10
HEARTBEAT_ACK == 11
ShardOpcodes == 0..12
\* OggPage.DURATION: the duration of a frame, 20 ms, in clock units of 5 ms
DURATION == 4
\* the only mode encrypt handles, and one it does not
XSALSA20_POLY1305 == "xsalsa20_poly1305"
OtherMode == "xsalsa20_poly1305_suffix"

\* the connections of Spec, and those of SpecTwo (one more)
Conns == 1..MaxConns
AllConns == 1..(MaxConns + 1)
Intervals == 1..MaxInterval

\* Python values: None and a float / int value
None == <<>>
Some(v) == <<v>>

\* a bytes object and an int object, as Python's == sees them
PyBytes(seq) == [type |-> "bytes", val |-> seq]
PyInt(n) == [type |-> "int", val |-> <<n>>]
\* opcode == WorkerOpcode.SHUTDOWN: objects of different types are unequal
PyEq(a, b) == a.type = b.type /\ a.val = b.val

\* float arithmetic with inf
FAdd(a, b) == IF a = Inf \/ b = Inf THEN Inf ELSE a + b
FSub(a, b) == IF a = Inf THEN Inf ELSE a - b
Abs(x) == IF x < 0 THEN -x ELSE x

VARIABLES
    now,                   \* time.perf_counter()
    cstate,                \* per connection: "none", "connecting", "open", "closed"
    connections,           \* manager.connections, in insertion order
    heartbeats_sent, heartbeats_acked, heartbeat_interval,
    heartbeat_last_sent, heartbeat_last_acked,
    identified,            \* per connection: an Identify payload was sent
    chan,                  \* bytes written to _wsock and not yet read from _rsock
    \* worker thread
    pc, shutting_down, timeout, wlist, next_beat,
    min_beat,              \* the least |next_beat| computed in this cycle
    di_used, di_pos,       \* the dict iterator of connections.items()
    select_at,             \* the time select was entered
    seen,                  \* what calcbeat read of each connection in this cycle
    rready, wready,
    opcode,                \* the last byte read from _rsock in this cycle
    wtmp,                  \* heartbeats_sent as loaded by the worker's += 1
    \* event-loop thread
    epc, ecur,
    etmp,                  \* heartbeats_sent as loaded by the handler's += 1
    \* AudioPlayer
    apc,                   \* where start() is suspended
    gate,                  \* _start_playing is set
    sequence, timestamp, page_index, started_at,
    ssrc, mode,            \* connection.ssrc, connection.mode
    stream_taken,          \* the frames taken from the stream
    packet,                \* the frame start() holds
    sent_log,              \* the arguments of transport.sendto, in order
    listeners,             \* EventDispatcher._listeners: lower-case name -> list
    calls,                 \* how many times each user function was invoked
    dispatched,            \* how many times each event was dispatched
    once_pending,          \* <<name, func>> given to once() and not dispatched since
    ev_error,              \* the exception of the last EventDispatcher call
    sent_at,               \* of each sendto: the frame index, the time, and
                           \* whether start() had waited for the gate
    delay, wake_at         \* the pacing sleep and the time it ends

connVars == <<cstate, heartbeats_sent, heartbeats_acked, heartbeat_interval,
              heartbeat_last_sent, heartbeat_last_acked, identified>>
iterVars == <<timeout, wlist, next_beat, min_beat, di_used, di_pos, select_at,
              seen>>
workerVars == <<pc, shutting_down, iterVars, rready, wready, opcode, wtmp>>
loopVars == <<epc, ecur, etmp>>
envVars == <<now, connections, chan>>
audioVars == <<apc, gate, sequence, timestamp, page_index, started_at, ssrc,
               mode, stream_taken, packet, sent_log, sent_at, delay, wake_at>>
\* everything but the clock and the player
gatewayVars == <<connections, chan, connVars, workerVars, loopVars>>
eventVars == <<listeners, calls, dispatched, once_pending, ev_error>>
vars == <<envVars, connVars, workerVars, loopVars, audioVars, eventVars>>

\* ------------------------------------------------------- BaseConnection
\* calcbeat with the test for "never sent" before the test for an outstanding ack
calcbeat_never_sent_first(c) ==
    IF heartbeat_interval[c] = Inf THEN None
    ELSE IF heartbeats_sent[c] = 0 THEN Some(0)
    ELSE IF heartbeats_sent[c] # heartbeats_acked[c] THEN None
    ELSE Some(FSub(FAdd(heartbeat_last_acked[c], heartbeat_interval[c]), now))

calcbeat(c) ==
    IF heartbeat_interval[c] = Inf THEN None
    ELSE IF heartbeats_sent[c] # heartbeats_acked[c] THEN None
    ELSE IF heartbeats_sent[c] = 0 THEN Some(0)
    ELSE Some(FSub(FAdd(heartbeat_last_acked[c], heartbeat_interval[c]), now))

\* the fields calcbeat reads that their handlers notify the worker about
Notified(c) == <<heartbeat_interval[c], heartbeats_acked[c], heartbeat_last_acked[c]>>
\* their values in a connection that received nothing yet
Unseen == [c \in AllConns |-> <<Inf, 0, Inf>>]

latency(c) == FSub(heartbeat_last_acked[c], heartbeat_last_sent[c])

\* --------------------------------------------------------------- Init
\* the event names callers use, and str.lower of each
EventNames == {"ready", "READY", "close"}
lower(name) == IF name = "READY" THEN "ready" ELSE name
LowerNames == {lower(name) : name \in EventNames}
\* the user functions given to on() and once()
Funcs == {"f", "g"}

\* EventDispatcher.__init__: self._listeners = {}; no waiter, no subscriber
NoListeners ==
    /\ listeners = [name \in {} |-> <<>>]
    /\ calls = [func \in Funcs |-> 0]
    /\ dispatched = [name \in LowerNames |-> 0]
    /\ once_pending = {}
    /\ ev_error = "none"

\* AudioPlayer.__init__, for a connection in the supported mode
NoPlayback ==
    /\ apc = "new"
    /\ gate = FALSE
    /\ sequence = 0
    /\ timestamp = <<0, 0>>
    /\ page_index = 0
    /\ started_at = 0
    /\ ssrc = <<0, 0>>
    /\ mode = XSALSA20_POLY1305
    /\ stream_taken = 0
    /\ packet = 0
    /\ sent_log = <<>>
    /\ sent_at = <<>>
    /\ delay = 0
    /\ wake_at = 0

Init ==
    /\ NoPlayback
    /\ NoListeners
    /\ now = 0
    /\ cstate = [c \in AllConns |-> "none"]
    /\ connections = <<>>
    /\ heartbeats_sent = [c \in AllConns |-> 0]
    /\ heartbeats_acked = [c \in AllConns |-> 0]
    /\ heartbeat_interval = [c \in AllConns |-> Inf]
    /\ heartbeat_last_sent = [c \in AllConns |-> Inf]
    /\ heartbeat_last_acked = [c \in AllConns |-> Inf]
    /\ identified = [c \in AllConns |-> FALSE]
    /\ chan = <<>>
    /\ pc = "notstarted"
    /\ shutting_down = FALSE
    /\ timeout = None
    /\ wlist = <<>>
    /\ next_beat = None
    /\ min_beat = None
    /\ di_used = 0
    /\ di_pos = 0
    /\ select_at = 0
    /\ seen = Unseen
    /\ rready = FALSE
    /\ opcode = None
    /\ wready = <<>>
    /\ wtmp = 0
    /\ epc = "idle"
    /\ ecur = 1
    /\ etmp = 0

\* ------------------------------------------------- ConnectionWorker.run
\* select called without the notification socket
rlist_without_rsock == {}

\* the descriptors select watches for reading
rlist == {"rsock"}

\* the locals of one cycle, before the cycle and after their last use
ResetIter ==
    /\ timeout' = None
    /\ wlist' = <<>>
    /\ next_beat' = None
    /\ min_beat' = None
    /\ di_used' = 0
    /\ di_pos' = 0
    /\ select_at' = 0
    /\ seen' = Unseen

\* an exception leaves run(): the thread ends
Raise ==
    /\ pc' = "crashed"
    /\ ResetIter
    /\ wready' = <<>>
    /\ wtmp' = 0
    /\ UNCHANGED <<rready, opcode>>

\* while not self.shutting_down: timeout = None; wlist = []; iter(items())
WorkerLoopTop ==
    /\ pc = "top"
    /\ IF shutting_down
       THEN /\ pc' = "done"
            /\ UNCHANGED iterVars
       ELSE /\ pc' = "iter"
            /\ timeout' = None
            /\ wlist' = <<>>
            /\ min_beat' = None
            /\ di_used' = Len(connections)
            /\ di_pos' = 0
            /\ seen' = Unseen
            /\ UNCHANGED <<next_beat, select_at>>
    /\ UNCHANGED <<envVars, connVars, loopVars, shutting_down, rready, wready,
                   opcode, wtmp>>
    /\ UNCHANGED <<audioVars, eventVars>>

\* the timeout after one pass of the loop body for a defined next_beat
NextTimeout(t, nb) == IF t = None \/ nb < t[1] THEN Some(Abs(nb)) ELSE t
NextWlist(w, fd, nb) == IF nb <= 0 THEN Append(w, fd) ELSE w
\* the least |next_beat| after one more defined next_beat
MinAbs(m, nb) == IF m = None \/ Abs(nb) < m[1] THEN Some(Abs(nb)) ELSE m

\* select raises for a timeout it cannot convert (inf)
SelectRaises == timeout # None /\ timeout[1] >= Inf

\* one next() of the dict iterator and the loop body, or the call of select
WorkerIter ==
    /\ pc = "iter"
    /\ IF Len(connections) # di_used
       THEN \* RuntimeError: dictionary changed size during iteration
            Raise
       ELSE IF di_pos = di_used
       THEN IF SelectRaises
            THEN Raise
            ELSE /\ pc' = "select"
                 /\ select_at' = now
                 /\ next_beat' = None
                 /\ UNCHANGED <<timeout, wlist, min_beat, di_used, di_pos, seen,
                                wready, wtmp>>
       ELSE LET fd == connections[di_pos + 1]
                nb == calcbeat(fd)
            IN /\ next_beat' = nb
               /\ di_pos' = di_pos + 1
               /\ wlist' = IF nb = None THEN wlist ELSE NextWlist(wlist, fd, nb[1])
               /\ timeout' = IF nb = None THEN timeout ELSE NextTimeout(timeout, nb[1])
               /\ min_beat' = IF nb = None THEN min_beat ELSE MinAbs(min_beat, nb[1])
               /\ seen' = [seen EXCEPT ![fd] = Notified(fd)]
               /\ pc' = "iter"
               /\ UNCHANGED <<di_used, select_at, wready, wtmp>>
    /\ UNCHANGED <<envVars, connVars, loopVars, shutting_down, rready, opcode>>
    /\ UNCHANGED <<audioVars, eventVars>>

\* what select would return now: the channel is readable, the timeout is over,
\* or some sockets of wlist are writable (W, chosen by the environment)
ReadReady == "rsock" \in rlist /\ chan # <<>>
TimedOut == timeout # None /\ now >= select_at + timeout[1]
Range(w) == {w[i] : i \in 1..Len(w)}
WriteReady(W) == SelectSeq(wlist, LAMBDA fd : fd \in W)
\* a descriptor of a closed socket in wlist
BadDescriptor == \E i \in 1..Len(wlist) : cstate[wlist[i]] = "closed"

\* where the thread continues after "if rready: ..." and after each send:
\* in "for fd in wready", or at the loop test when nothing is left to send
AfterDrain(w) == IF w = <<>> THEN "top" ELSE "send"

\* rready, wready, _ = select.select(rlist, wlist, [], timeout)
WorkerSelect ==
    /\ pc = "select"
    /\ \/ /\ BadDescriptor
          /\ Raise
       \/ \E W \in SUBSET Range(wlist) :
          /\ ReadReady \/ TimedOut \/ W # {}
          /\ rready' = ReadReady
          /\ wready' = WriteReady(W)
          /\ pc' = IF ReadReady THEN "drain" ELSE AfterDrain(WriteReady(W))
          /\ ResetIter
          /\ opcode' = None
          /\ UNCHANGED wtmp
    /\ UNCHANGED <<envVars, connVars, loopVars, shutting_down>>
    /\ UNCHANGED <<audioVars, eventVars>>

\* if rready: opcode = self._rsock.recv(1), until BlockingIOError
WorkerDrain ==
    /\ pc = "drain"
    /\ IF chan = <<>>
       THEN /\ pc' = AfterDrain(wready)
            /\ UNCHANGED <<chan, opcode, shutting_down>>
       ELSE /\ chan' = Tail(chan)
            /\ opcode' = PyBytes(<<Head(chan)>>)
            /\ shutting_down' = IF PyEq(PyBytes(<<Head(chan)>>), PyInt(SHUTDOWN))
                                THEN TRUE ELSE shutting_down
            /\ pc' = "drain"
    /\ UNCHANGED <<now, connections, connVars, loopVars, iterVars,
                   rready, wready, wtmp>>
    /\ UNCHANGED <<audioVars, eventVars>>

\* for fd in wready: conn.send_heartbeat(): transport.write and the load of += 1
WorkerSend ==
    /\ pc = "send"
    /\ wready # <<>>
    /\ \/ /\ pc' = "send_store"
          /\ wtmp' = heartbeats_sent[Head(wready)]
          /\ UNCHANGED <<iterVars, rready, wready, opcode>>
       \/ \* transport.write raises
          Raise
    /\ UNCHANGED <<envVars, connVars, loopVars, shutting_down>>
    /\ UNCHANGED <<audioVars, eventVars>>

\* the store of heartbeats_sent += 1 and heartbeat_last_sent = perf_counter()
WorkerSendStore ==
    /\ pc = "send_store"
    /\ heartbeats_sent' = [heartbeats_sent EXCEPT ![Head(wready)] = wtmp + 1]
    /\ heartbeat_last_sent' = [heartbeat_last_sent EXCEPT ![Head(wready)] = now]
    /\ wready' = Tail(wready)
    /\ wtmp' = 0
    /\ pc' = AfterDrain(Tail(wready))
    /\ UNCHANGED <<envVars, cstate, heartbeats_acked, heartbeat_interval,
                   heartbeat_last_acked, identified, loopVars, shutting_down,
                   iterVars, rready, opcode>>
    /\ UNCHANGED <<audioVars, eventVars>>

\* --------------------------------------------- BaseManager, event loop
\* create_connection up to await connection.connect()
CreateConnection(c) ==
    /\ epc = "idle"
    /\ cstate[c] = "none"
    /\ \A d \in AllConns : d < c => cstate[d] # "none"
    /\ cstate' = [cstate EXCEPT ![c] = "connecting"]
    /\ pc' = IF pc = "notstarted" THEN "top" ELSE pc
    /\ UNCHANGED <<envVars, heartbeats_sent, heartbeats_acked, heartbeat_interval,
                   heartbeat_last_sent, heartbeat_last_acked, identified, loopVars,
                   shutting_down, iterVars, rready, wready, opcode, wtmp>>
    /\ UNCHANGED <<audioVars, eventVars>>

\* self.connections[sock.fileno()] = connection
Register(c) ==
    /\ epc = "idle"
    /\ cstate[c] = "connecting"
    /\ cstate' = [cstate EXCEPT ![c] = "open"]
    /\ connections' = Append(connections, c)
    /\ UNCHANGED <<now, chan, heartbeats_sent, heartbeats_acked,
                   heartbeat_interval, heartbeat_last_sent, heartbeat_last_acked,
                   identified, loopVars, workerVars>>
    /\ UNCHANGED <<audioVars, eventVars>>

\* the connection is closed; nothing in the package hooks the close
Close(c) ==
    /\ epc = "idle"
    /\ cstate[c] = "open"
    /\ cstate' = [cstate EXCEPT ![c] = "closed"]
    /\ UNCHANGED <<envVars, heartbeats_sent, heartbeats_acked, heartbeat_interval,
                   heartbeat_last_sent, heartbeat_last_acked, identified, loopVars,
                   workerVars>>
    /\ UNCHANGED <<audioVars, eventVars>>

\* ConnectionWorker.shutdown
Shutdown ==
    /\ epc = "idle"
    /\ pc # "notstarted"
    /\ Len(chan) < MaxChan
    /\ chan' = Append(chan, SHUTDOWN)
    /\ UNCHANGED <<now, connections, connVars, loopVars, workerVars>>
    /\ UNCHANGED <<audioVars, eventVars>>

\* ---------------------------------------------- Shard.ws_text_received
\* HELLO: self.heartbeat_interval = msg.data['heartbeat_interval'] / 1000
RecvHello(c, i) ==
    /\ epc = "idle"
    /\ cstate[c] = "open"
    /\ heartbeat_interval' = [heartbeat_interval EXCEPT ![c] = i]
    /\ epc' = "hello_wakeup"
    /\ ecur' = c
    /\ UNCHANGED <<envVars, cstate, heartbeats_sent, heartbeats_acked,
                   heartbeat_last_sent, heartbeat_last_acked, identified, etmp,
                   workerVars>>
    /\ UNCHANGED <<audioVars, eventVars>>

\* HEARTBEAT: self.send_heartbeat(): transport.write and the load of += 1
RecvHeartbeat(c) ==
    /\ epc = "idle"
    /\ cstate[c] = "open"
    /\ heartbeats_sent[c] < MaxBeats
    /\ epc' = "hb_store"
    /\ ecur' = c
    /\ etmp' = heartbeats_sent[c]
    /\ UNCHANGED <<envVars, connVars, workerVars>>
    /\ UNCHANGED <<audioVars, eventVars>>

\* the store of heartbeats_sent += 1 and heartbeat_last_sent = perf_counter()
HeartbeatStore ==
    /\ epc = "hb_store"
    /\ heartbeats_sent' = [heartbeats_sent EXCEPT ![ecur] = etmp + 1]
    /\ heartbeat_last_sent' = [heartbeat_last_sent EXCEPT ![ecur] = now]
    /\ epc' = "idle"
    /\ ecur' = 1
    /\ etmp' = 0
    /\ UNCHANGED <<envVars, cstate, heartbeats_acked, heartbeat_interval,
                   heartbeat_last_acked, identified, workerVars>>
    /\ UNCHANGED <<audioVars, eventVars>>

\* HEARTBEAT_ACK: self.heartbeats_acked += 1
RecvHeartbeatAck(c) ==
    /\ epc = "idle"
    /\ cstate[c] = "open"
    /\ heartbeats_acked[c] < MaxBeats
    /\ heartbeats_acked' = [heartbeats_acked EXCEPT ![c] = @ + 1]
    /\ epc' = "ack_time"
    /\ ecur' = c
    /\ UNCHANGED <<envVars, cstate, heartbeats_sent, heartbeat_interval,
                   heartbeat_last_sent, heartbeat_last_acked, identified, etmp,
                   workerVars>>
    /\ UNCHANGED <<audioVars, eventVars>>

\* self.heartbeat_last_acked = time.perf_counter()
AckTime ==
    /\ epc = "ack_time"
    /\ heartbeat_last_acked' = [heartbeat_last_acked EXCEPT ![ecur] = now]
    /\ epc' = "wakeup"
    /\ ecur' = 1
    /\ UNCHANGED <<envVars, cstate, heartbeats_sent, heartbeats_acked,
                   heartbeat_interval, heartbeat_last_sent, identified, etmp,
                   workerVars>>
    /\ UNCHANGED <<audioVars, eventVars>>

\* await self.manager.connection_worker.wakeup(), in the HELLO branch (followed
\* by identify) and in the HEARTBEAT_ACK branch (the last statement)
Wakeup ==
    /\ epc \in {"wakeup", "hello_wakeup"}
    /\ Len(chan) < MaxChan
    /\ chan' = Append(chan, WAKEUP)
    /\ epc' = IF epc = "hello_wakeup" THEN "identify" ELSE "idle"
    /\ UNCHANGED <<now, connections, connVars, ecur, etmp, workerVars>>
    /\ UNCHANGED <<audioVars, eventVars>>

\* await self.identify(): the Identify payload is sent
identify ==
    /\ epc = "identify"
    /\ identified' = [identified EXCEPT ![ecur] = TRUE]
    /\ epc' = "idle"
    /\ ecur' = 1
    /\ UNCHANGED <<envVars, cstate, heartbeats_sent, heartbeats_acked,
                   heartbeat_interval, heartbeat_last_sent, heartbeat_last_acked,
                   etmp, workerVars>>
    /\ UNCHANGED <<audioVars, eventVars>>

\* the branch ws_text_received takes for msg.opcode
Branch(op) ==
    IF op = DISPATCH THEN "dispatch"
    ELSE IF op = HELLO THEN "hello"
    ELSE IF op = HEARTBEAT THEN "heartbeat"
    ELSE IF op = HEARTBEAT_ACK THEN "heartbeat_ack"
    ELSE "none"

\* a message with any other opcode closes the connection
RecvOther_closes(c, op) ==
    /\ epc = "idle"
    /\ cstate[c] = "open"
    /\ Branch(op) = "none"
    /\ epc' = "no_branch"
    /\ cstate' = [cstate EXCEPT ![c] = "closed"]
    /\ UNCHANGED <<envVars, heartbeats_sent, heartbeats_acked, heartbeat_interval,
                   heartbeat_last_sent, heartbeat_last_acked, identified, ecur,
                   etmp, workerVars>>
    /\ UNCHANGED <<audioVars, eventVars>>

\* a message with any other opcode: no condition of the if/elif chain is true
RecvOther(c, op) ==
    /\ epc = "idle"
    /\ cstate[c] = "open"
    /\ Branch(op) = "none"
    /\ epc' = "no_branch"
    /\ UNCHANGED <<envVars, connVars, ecur, etmp, workerVars>>
    /\ UNCHANGED <<audioVars, eventVars>>

\* ws_text_received returns after the if/elif chain
HandlerReturn ==
    /\ epc = "no_branch"
    /\ epc' = "idle"
    /\ UNCHANGED <<envVars, connVars, ecur, etmp, workerVars>>
    /\ UNCHANGED <<audioVars, eventVars>>

\* ------------------------------------------------------- environment
\* the worker thread is not running, or sleeps in select (no socket writable)
WorkerWaits ==
    \/ pc \in {"notstarted", "done", "crashed"}
    \/ pc = "select" /\ ~ReadReady /\ ~TimedOut

\* time passes while the worker sleeps and no handler is running
Tick ==
    /\ now < MaxTime
    /\ epc = "idle"
    /\ WorkerWaits
    /\ now' = now + 1
    /\ UNCHANGED <<connections, chan, connVars, loopVars, workerVars>>
    /\ UNCHANGED <<audioVars, eventVars>>

Next ==
    \/ WorkerLoopTop
    \/ WorkerIter
    \/ WorkerSelect
    \/ WorkerDrain
    \/ WorkerSend
    \/ WorkerSendStore
    \/ \E c \in Conns : CreateConnection(c)
    \/ \E c \in Conns : Register(c)
    \/ \E c \in Conns : Close(c)
    \/ Shutdown
    \/ \E c \in Conns, i \in Intervals : RecvHello(c, i)
    \/ \E c \in Conns : RecvHeartbeat(c)
    \/ HeartbeatStore
    \/ \E c \in Conns : RecvHeartbeatAck(c)
    \/ AckTime
    \/ Wakeup
    \/ identify
    \/ \E c \in Conns, op \in ShardOpcodes : RecvOther(c, op)
    \/ HandlerReturn
    \/ Tick

Spec == Init /\ [][Next]_vars

\* the send of the worker with a transport that accepts the frame
WorkerSendWritten == WorkerSend /\ pc' = "send_store"

\* select returns every socket of wlist as writable
SelectWritable == WorkerSelect /\ wlist # <<>> /\ wready' = wlist

\* the HELLO a gateway sends once, after the connection is made
RecvFirstHello(c, i) == heartbeat_interval[c] = Inf /\ RecvHello(c, i)

\* the HEARTBEAT_ACK that answers a heartbeat sent
RecvAckOfSent(c) == heartbeats_sent[c] > heartbeats_acked[c] /\ RecvHeartbeatAck(c)

\* the same program on transports whose write does not fail, with no call
\* of shutdown, one HELLO per connection and no HEARTBEAT_ACK but in answer
\* to a heartbeat
NextLive ==
    \/ WorkerLoopTop
    \/ WorkerIter
    \/ WorkerSelect
    \/ WorkerDrain
    \/ WorkerSendWritten
    \/ WorkerSendStore
    \/ \E c \in Conns : CreateConnection(c)
    \/ \E c \in Conns : Register(c)
    \/ \E c \in Conns : Close(c)
    \/ \E c \in Conns, i \in Intervals : RecvFirstHello(c, i)
    \/ \E c \in Conns : RecvHeartbeat(c)
    \/ HeartbeatStore
    \/ \E c \in Conns : RecvAckOfSent(c)
    \/ AckTime
    \/ Wakeup
    \/ identify
    \/ \E c \in Conns, op \in ShardOpcodes : RecvOther(c, op)
    \/ HandlerReturn
    \/ Tick

\* The worker is a thread of its own and the handlers are callbacks of a
\* running event loop: a step of either that stays possible is taken.  Time
\* goes on whenever the worker sleeps with no handler running, however many
\* messages arrive, and a socket the worker keeps waiting on for writing is
\* not unwritable for ever.
Fairness ==
    /\ WF_vars(WorkerLoopTop)
    /\ WF_vars(WorkerIter)
    /\ WF_vars(WorkerSelect)
    /\ SF_vars(SelectWritable)
    /\ WF_vars(WorkerDrain)
    /\ WF_vars(WorkerSendWritten)
    /\ WF_vars(WorkerSendStore)
    /\ WF_vars(HeartbeatStore)
    /\ WF_vars(AckTime)
    /\ WF_vars(Wakeup)
    /\ WF_vars(identify)
    /\ WF_vars(HandlerReturn)
    /\ SF_vars(Tick)

SpecLive == Init /\ [][NextLive]_vars /\ Fairness

\* the same program with one more connection; the messages that match no
\* branch of ws_text_received, which change nothing, are left out
NextTwo ==
    \/ WorkerLoopTop
    \/ WorkerIter
    \/ WorkerSelect
    \/ WorkerDrain
    \/ WorkerSend
    \/ WorkerSendStore
    \/ \E c \in AllConns : CreateConnection(c)
    \/ \E c \in AllConns : Register(c)
    \/ \E c \in AllConns : Close(c)
    \/ Shutdown
    \/ \E c \in AllConns, i \in Intervals : RecvHello(c, i)
    \/ \E c \in AllConns : RecvHeartbeat(c)
    \/ HeartbeatStore
    \/ \E c \in AllConns : RecvHeartbeatAck(c)
    \/ AckTime
    \/ Wakeup
    \/ identify
    \/ Tick

SpecTwo == Init /\ [][NextTwo]_vars

\* calcbeat on every combination of its inputs: one registered connection in
\* any state of its counters, and the worker about to evaluate it
InitCalc ==
    /\ NoListeners
    /\ NoPlayback
    /\ now \in 0..MaxTime
    /\ cstate = [c \in AllConns |-> IF c = 1 THEN "open" ELSE "none"]
    /\ connections = <<1>>
    /\ \E s \in 0..(MaxBeats + 1), a \in 0..MaxBeats, i \in Intervals \cup {Inf} :
         /\ heartbeats_sent = [c \in AllConns |-> IF c = 1 THEN s ELSE 0]
         /\ heartbeats_acked = [c \in AllConns |-> IF c = 1 THEN a ELSE 0]
         /\ heartbeat_interval = [c \in AllConns |-> IF c = 1 THEN i ELSE Inf]
         /\ \E ls \in (IF s = 0 THEN {} ELSE 0..now) \cup {Inf},
               la \in (IF a = 0 THEN {} ELSE 0..now) \cup {Inf} :
              /\ heartbeat_last_sent = [c \in AllConns |-> IF c = 1 THEN ls ELSE Inf]
              /\ heartbeat_last_acked = [c \in AllConns |-> IF c = 1 THEN la ELSE Inf]
    /\ identified = [c \in AllConns |-> c = 1 /\ heartbeat_interval[c] # Inf]
    /\ chan = <<>>
    /\ pc = "iter"
    /\ shutting_down = FALSE
    /\ timeout = None
    /\ wlist = <<>>
    /\ next_beat = None
    /\ min_beat = None
    /\ di_used = 1
    /\ di_pos = 0
    /\ select_at = 0
    /\ seen = Unseen
    /\ rready = FALSE
    /\ wready = <<>>
    /\ opcode = None
    /\ wtmp = 0
    /\ epc = "idle"
    /\ ecur = 1
    /\ etmp = 0

NextCalc == WorkerIter

SpecCalc == InitCalc /\ [][NextCalc]_vars

\* ---------------------------------------------------------- AudioPlayer
\* Python integers beyond 31 bits as <<high, low>>, the value high * 2^16 + low
W16 == 2^16
WAdd(w, k) == <<w[1] + (w[2] + k) \div W16, (w[2] + k) % W16>>
\* n * k, for n * k < 2^47 and k < 2^15
WMul(n, k) == <<(n \div W16) * k + ((n % W16) * k) \div W16, ((n % W16) * k) % W16>>
\* w >= 2 ** 32
WGe32(w) == w[1] >= W16

\* (48000 // 100) * 2
SampleDelta == (48000 \div 100) * 2

\* int.to_bytes(length, 'big', signed=False) of n < 2^16, and of a <<high, low>>
to_bytes(n, length) == [i \in 1..length |-> (n \div 256^(length - i)) % 256]
to_bytes4(w) == to_bytes(w[1], 2) \o to_bytes(w[2], 2)

\* the header with the three fields in little-endian order
make_header_little_endian ==
    LET rev(b) == [i \in 1..Len(b) |-> b[Len(b) + 1 - i]]
    IN <<128, 120>> \o rev(to_bytes(sequence, 2)) \o rev(to_bytes4(timestamp))
                    \o rev(to_bytes4(ssrc))

make_header ==
    <<128, 120>> \o to_bytes(sequence, 2) \o to_bytes4(timestamp) \o to_bytes4(ssrc)

\* secret_box.encrypt(bytes(data), bytes(nonce)).ciphertext, not interpreted
Ciphertext(data, nonce) == [box |-> data, nonce |-> nonce]

\* encrypt(data): header + ciphertext, or None for every other mode
encrypt(data) ==
    LET header == make_header
    IN IF mode = XSALSA20_POLY1305
       THEN LET nonce == header \o [i \in 1..12 |-> 0]
            IN Some([header |-> header, ciphertext |-> Ciphertext(data, nonce)])
       ELSE None

\* the sequence wrapping only above 2 ** 16
IncSequence_wraps_late(n) == IF n + 1 > 2^16 THEN 0 ELSE n + 1

\* increment(): sequence, timestamp
IncSequence(n) == IF n + 1 >= 2^16 THEN 0 ELSE n + 1
IncTimestamp(t) == IF WGe32(WAdd(t, SampleDelta)) THEN <<0, 0>> ELSE WAdd(t, SampleDelta)

\* the schedule counted from the present time
expected_elapsed_reanchored == now - started_at

expected_elapsed == DURATION * page_index

\* the pacing delay that ignores the time already spent
PacingDelay_additive == DURATION

\* delay = (self.started_at + self.expected_elapsed - time.perf_counter()) + DURATION
PacingDelay == ((started_at + expected_elapsed) - now) + DURATION

\* data = self.encrypt(packet); transport.sendto(data); ...; asyncio.sleep(delay)
\* sendto raises TypeError for None; sleep returns at once for delay <= 0
Transmit(p) ==
    /\ sent_log' = Append(sent_log, encrypt(p))
    /\ sent_at' = Append(sent_at, [frame |-> page_index, at |-> now,
                                   waited |-> apc = "resumed"])
    /\ IF encrypt(p) = None
       THEN /\ apc' = "failed"
            /\ UNCHANGED <<delay, wake_at>>
       ELSE /\ apc' = "sleep"
            /\ delay' = PacingDelay
            /\ wake_at' = IF PacingDelay <= 0 THEN now ELSE now + PacingDelay

\* start(): send_speaking and started_at = time.perf_counter()
Start ==
    /\ apc = "new"
    /\ started_at' = now
    /\ apc' = "fetch"
    /\ UNCHANGED <<now, gatewayVars, eventVars, gate, sequence, timestamp, page_index, ssrc,
                   mode, stream_taken, packet, sent_log, sent_at, delay, wake_at>>

\* async for packet in self.stream: the next frame arrives;
\* await self._start_playing.wait() returns at once when the event is set
NextPacket ==
    /\ apc = "fetch"
    /\ stream_taken < MaxFrames
    /\ stream_taken' = stream_taken + 1
    /\ packet' = stream_taken + 1
    /\ IF gate
       THEN Transmit(stream_taken + 1)
       ELSE /\ apc' = "gate"
            /\ UNCHANGED <<sent_log, sent_at, delay, wake_at>>
    /\ UNCHANGED <<now, gatewayVars, eventVars, gate, sequence, timestamp, page_index,
                   started_at, ssrc, mode>>

\* the stream is exhausted: the loop ends
StreamEnd ==
    /\ apc = "fetch"
    /\ stream_taken = MaxFrames
    /\ apc' = "done"
    /\ UNCHANGED <<now, gatewayVars, eventVars, gate, sequence, timestamp, page_index,
                   started_at, ssrc, mode, stream_taken, packet, sent_log, sent_at, delay,
                   wake_at>>

\* _start_playing.set(): the waiter's future is resolved, start() is scheduled
GateOpen ==
    /\ apc \notin {"new", "done", "failed"}
    /\ ~gate
    /\ gate' = TRUE
    /\ apc' = IF apc = "gate" THEN "resumed" ELSE apc
    /\ UNCHANGED <<now, gatewayVars, eventVars, sequence, timestamp, page_index, started_at,
                   ssrc, mode, stream_taken, packet, sent_log, sent_at, delay, wake_at>>

\* _start_playing.clear()
GateClose ==
    /\ apc \notin {"new", "done", "failed"}
    /\ gate
    /\ gate' = FALSE
    /\ UNCHANGED <<now, gatewayVars, eventVars, apc, sequence, timestamp, page_index,
                   started_at, ssrc, mode, stream_taken, packet, sent_log, sent_at, delay,
                   wake_at>>

\* start() runs again after wait(): wait returns True without a second look
GateResume ==
    /\ apc = "resumed"
    /\ Transmit(packet)
    /\ UNCHANGED <<now, gatewayVars, eventVars, gate, sequence, timestamp, page_index,
                   started_at, ssrc, mode, stream_taken, packet>>

\* the sleep is over: self.increment(), and the loop asks for the next frame
SleepDone ==
    /\ apc = "sleep"
    /\ now >= wake_at
    /\ sequence' = IncSequence(sequence)
    /\ timestamp' = IncTimestamp(timestamp)
    /\ page_index' = page_index + 1
    /\ apc' = "fetch"
    /\ packet' = 0
    /\ delay' = 0
    /\ wake_at' = 0
    /\ UNCHANGED <<now, gatewayVars, eventVars, gate, started_at, ssrc, mode, stream_taken,
                   sent_log, sent_at>>

\* time passes while start() waits for a frame, for the gate or in its sleep
AudioTick ==
    /\ now < MaxClock
    /\ \/ apc \in {"fetch", "gate"}
       \/ apc = "sleep" /\ now < wake_at
    /\ now' = now + 1
    /\ UNCHANGED <<gatewayVars, eventVars, audioVars>>

\* the frame counts playback is started from: the first frame, the last frame
\* before sequence reaches 2^16, and the last frame before timestamp reaches
\* 2^32 (960 * 4473924 = 4294967040 < 2^32 <= 960 * 4473925)
StartFrames == {0, 2^16 - 1, 4473924}
Ssrcs == {<<0, 0>>, <<43707, 52445>>, <<65535, 65535>>}

\* a player before start() in either mode, or a player on schedule after n
\* frames, about to ask for the next one
InitAudio ==
    /\ NoListeners
    /\ now = 0
    /\ cstate = [c \in AllConns |-> "none"]
    /\ connections = <<>>
    /\ heartbeats_sent = [c \in AllConns |-> 0]
    /\ heartbeats_acked = [c \in AllConns |-> 0]
    /\ heartbeat_interval = [c \in AllConns |-> Inf]
    /\ heartbeat_last_sent = [c \in AllConns |-> Inf]
    /\ heartbeat_last_acked = [c \in AllConns |-> Inf]
    /\ identified = [c \in AllConns |-> FALSE]
    /\ chan = <<>>
    /\ pc = "notstarted"
    /\ shutting_down = FALSE
    /\ timeout = None
    /\ wlist = <<>>
    /\ next_beat = None
    /\ min_beat = None
    /\ di_used = 0
    /\ di_pos = 0
    /\ select_at = 0
    /\ seen = Unseen
    /\ rready = FALSE
    /\ opcode = None
    /\ wready = <<>>
    /\ wtmp = 0
    /\ epc = "idle"
    /\ ecur = 1
    /\ etmp = 0
    /\ ssrc \in Ssrcs
    /\ page_index \in StartFrames
    /\ sequence = page_index % 2^16
    /\ timestamp = WMul(page_index, SampleDelta)
    /\ started_at = 0 - DURATION * page_index
    /\ IF page_index = 0
       THEN /\ apc = "new"
            /\ gate = FALSE
            /\ mode \in {XSALSA20_POLY1305, OtherMode}
       ELSE /\ apc = "fetch"
            /\ gate \in BOOLEAN
            /\ mode = XSALSA20_POLY1305
    /\ stream_taken = 0
    /\ packet = 0
    /\ sent_log = <<>>
    /\ sent_at = <<>>
    /\ delay = 0
    /\ wake_at = 0

NextAudio ==
    \/ Start
    \/ NextPacket
    \/ StreamEnd
    \/ GateOpen
    \/ GateClose
    \/ GateResume
    \/ SleepDone
    \/ AudioTick

SpecAudio == InitAudio /\ [][NextAudio]_vars

\* ---------------------------------------------------- EventDispatcher
\* The dispatcher of utils/events.py with no waiter and no subscriber: every
\* method runs to its end on the event loop, so each call is one step.

\* self._listeners.get(name): the list, or the empty list for a missing key
ListenersOf(key) == IF key \in DOMAIN listeners THEN listeners[key] ELSE <<>>

\* how many times a list holds a callable
Count(callback, list) == Cardinality({i \in DOMAIN list : list[i] = callback})

\* list.remove: the list without the first occurrence of the callable
ListRemove(list, callback) ==
    LET i == CHOOSE j \in DOMAIN list :
                 /\ list[j] = callback
                 /\ \A k \in 1..(j - 1) : list[k] # callback
    IN SubSeq(list, 1, i - 1) \o SubSeq(list, i + 1, Len(list))

\* the closure 'callback' that once() builds around func: a new object, equal
\* to no user function
callback(func) == IF func = "f" THEN "callback of f" ELSE "callback of g"

\* listeners = self._listeners.setdefault(name.lower(), []); listeners.append
register_listener(name, cb) ==
    /\ listeners' = [key \in DOMAIN listeners \cup {lower(name)} |->
                        IF key = lower(name)
                        THEN Append(ListenersOf(key), cb)
                        ELSE listeners[key]]
    /\ ev_error' = "none"

\* listeners = self._listeners.get(name.lower()); if it is not None:
\* listeners.remove(callback), which raises ValueError for an absent callable
remove_listener(name, cb) ==
    IF lower(name) \notin DOMAIN listeners
    THEN /\ ev_error' = "none"
         /\ UNCHANGED listeners
    ELSE IF Count(cb, listeners[lower(name)]) = 0
    THEN /\ ev_error' = "ValueError"
         /\ UNCHANGED listeners
    ELSE /\ ev_error' = "none"
         /\ listeners' = [listeners EXCEPT ![lower(name)] = ListRemove(@, cb)]

\* @dispatcher.on(name): register_listener(name, func)
on(name, func) ==
    /\ Len(ListenersOf(lower(name))) < MaxListeners
    /\ register_listener(name, func)
    /\ UNCHANGED <<calls, dispatched, once_pending>>
    /\ UNCHANGED <<now, gatewayVars, audioVars>>

\* a caller's remove_listener(name, func)
Unregister(name, func) ==
    /\ remove_listener(name, func)
    /\ UNCHANGED <<calls, dispatched, once_pending>>
    /\ UNCHANGED <<now, gatewayVars, audioVars>>

\* @dispatcher.once(name): name = name.lower(); the closure 'callback' is
\* built; self.remove_listener(name, callback); return func.  The decorator
\* returns normally only when the event has no list of listeners yet.
once(name, func) ==
    /\ remove_listener(lower(name), callback(func))
    /\ once_pending' = IF ev_error' = "none"
                       THEN once_pending \cup {<<lower(name), func>>}
                       ELSE once_pending
    /\ UNCHANGED <<calls, dispatched>>
    /\ UNCHANGED <<now, gatewayVars, audioVars>>

\* run_callbacks: for listener in listeners: ensure_future(listener(*args)).
\* A user function in the list is called once per occurrence; the list is
\* not changed.
run_callbacks(name) ==
    /\ calls' = [func \in Funcs |->
                    calls[func] + Count(func, ListenersOf(lower(name)))]
    /\ UNCHANGED listeners

\* dispatch(name, *args): wraps the args in the event class and runs
\* run_callbacks(name, *args)
dispatch(name) ==
    /\ dispatched[lower(name)] < MaxDispatch
    /\ run_callbacks(name)
    /\ dispatched' = [dispatched EXCEPT ![lower(name)] = @ + 1]
    /\ once_pending' = {p \in once_pending : p[1] # lower(name)}
    /\ ev_error' = "none"
    /\ UNCHANGED <<now, gatewayVars, audioVars>>

NextEvents ==
    \/ \E name \in EventNames, func \in Funcs : on(name, func)
    \/ \E name \in EventNames, func \in Funcs : Unregister(name, func)
    \/ \E name \in EventNames, func \in Funcs : once(name, func)
    \/ \E name \in EventNames : dispatch(name)

SpecEvents == Init /\ [][NextEvents]_vars

\* ------------------------------------------------------------- claims
\* the step in which the worker thread calls conn.send_heartbeat()
WorkerCallsSend == pc = "send" /\ pc' \in {"send_store", "crashed"}

\* C1: the worker never calls send_heartbeat on a connection whose
\* heartbeats_sent differs from heartbeats_acked at the moment of the call.
C1_NoSendWhileOutstanding ==
    [][WorkerCallsSend =>
         heartbeats_sent[Head(wready)] = heartbeats_acked[Head(wready)]]_vars

\* C2: heartbeats_acked <= heartbeats_sent after every step, and neither
\* counter ever decreases.
C2_CountersOrdered ==
    [][\A c \in AllConns :
         /\ heartbeats_acked'[c] <= heartbeats_sent'[c]
         /\ heartbeats_sent'[c] >= heartbeats_sent[c]
         /\ heartbeats_acked'[c] >= heartbeats_acked[c]]_vars

\* C3: when the worker reads a SHUTDOWN byte from the channel it sets its
\* shutdown flag (and so leaves the loop at the next loop test).
C3_ShutdownObserved == opcode = PyBytes(<<SHUTDOWN>>) => shutting_down

\* C4: a wakeup makes the worker return from select, drain the channel and
\* recompute every connection's next beat: the clock does not advance while a
\* byte is pending in select, and the recomputation that follows a drained
\* WAKEUP byte reaches the next select (the thread does not end in it).
C4_NotifyRecomputes ==
    [][/\ (pc = "select" /\ chan # <<>>) => now' = now
       /\ (pc = "iter" /\ rready /\ opcode = PyBytes(<<WAKEUP>>))
            => pc' # "crashed"]_vars

\* C5: no notification is lost: whenever time passes while the worker is
\* blocked in select, no byte is left in the channel and what calcbeat read of
\* every connection is the connection's current notified state.
C5_NoStaleSleep ==
    [][(pc = "select" /\ now' # now)
         => /\ chan = <<>>
            /\ \A c \in AllConns : seen[c] = Notified(c)]_vars

\* a notification written while the worker is not blocked: the worker has
\* computed a connection from its old state, the handler has finished and its
\* WAKEUP byte is in the channel
C5_Witness ==
    /\ pc = "iter"
    /\ epc = "idle"
    /\ WAKEUP \in Range(chan)
    /\ \E i \in 1..di_pos : seen[connections[i]] # Notified(connections[i])

\* C6: a registration takes effect at once: the worker never sleeps through a
\* tick on a deadline computation that missed a registered connection.
C6_RegisterWakes ==
    [][(pc = "select" /\ now' # now) => di_used = Len(connections)]_vars

\* C7: closing deregisters before the next cycle: no worker cycle starts with a
\* closed connection in the registry it iterates.
C7_ClosedDeregistered ==
    [][(pc = "top" /\ pc' = "iter")
         => \A c \in Range(connections) : cstate[c] # "closed"]_vars

\* C8: a failing send_heartbeat does not stop the worker loop.
C8_SendErrorContained ==
    [][pc = "send" => pc' # "crashed"]_vars

\* C9: an insertion into the registry while the worker iterates it never makes
\* the worker fail.
C9_RegistryTolerant ==
    [][(pc = "iter" /\ Len(connections) # di_used) => pc' # "crashed"]_vars

\* C10: calcbeat is undefined when the interval is unknown, undefined when
\* sent differs from acked, 0 when the interval is known and nothing was sent,
\* and last_acked + interval - now otherwise, the cases taken in this order.
C10_CalcbeatCases ==
    (pc = "iter" /\ di_pos = 1) =>
        LET c == connections[1]
            sent == heartbeats_sent[c]
            acked == heartbeats_acked[c]
            interval == heartbeat_interval[c]
        IN /\ interval = Inf => next_beat = None
           /\ (interval # Inf /\ sent # acked) => next_beat = None
           /\ (interval # Inf /\ sent = acked /\ sent = 0) => next_beat = Some(0)
           /\ (interval # Inf /\ sent = acked /\ sent # 0) =>
                 next_beat = Some(FSub(FAdd(heartbeat_last_acked[c], interval), now))

\* calcbeat was evaluated for a connection with an acknowledged heartbeat and
\* returned the time left to the next one
C10_Witness ==
    /\ pc = "iter"
    /\ di_pos = 1
    /\ heartbeats_sent[1] = 1
    /\ heartbeats_acked[1] = 1
    /\ heartbeat_last_acked[1] # Inf
    /\ next_beat = Some(heartbeat_last_acked[1] + heartbeat_interval[1] - now)

\* C11: in every cycle the timeout passed to select is the least |next_beat|
\* over the connections whose next_beat is defined, and None when there is none.
C11_TimeoutIsMin == pc = "select" => timeout = min_beat

\* C12: between two handlers, a connection with heartbeats_sent equal to
\* heartbeats_acked and at least one heartbeat sent has a latency >= 0.
C12_LatencyNonNegative ==
    epc = "idle" =>
        \A c \in AllConns :
            (heartbeats_sent[c] = heartbeats_acked[c] /\ heartbeats_sent[c] >= 1)
                => latency(c) >= 0

\* the steps of the HELLO branch: the store of the interval, and the Identify
HelloRecords == epc = "idle" /\ epc' = "hello_wakeup"
HelloIdentifies == epc = "identify" /\ epc' = "idle"

\* C13: the Hello action is taken only by a connection that awaits its Hello:
\* a connection that has sent Identify neither records an interval nor sends
\* Identify again.
C13_HelloOnce ==
    [][/\ HelloRecords => ~identified[ecur']
       /\ HelloIdentifies => ~identified[ecur]]_vars

\* the steps of ws_text_received for a message that matches no branch
DropSteps == epc' # epc /\ "no_branch" \in {epc, epc'}

\* C14: a message whose opcode matches no branch changes nothing: counters,
\* times, interval and connection state are unchanged, nothing is written
\* (no Identify, no heartbeat, no wakeup byte), and the handler returns, so
\* that the connection handles the next message.
C14_UnknownDropped ==
    [][DropSteps => /\ connVars' = connVars
                    /\ chan' = chan
                    /\ epc' \in {"idle", "no_branch"}
                    /\ etmp' = etmp]_vars

\* an unknown message is being handled by an identified, open connection with
\* a heartbeat counted
C14_Witness ==
    /\ epc = "no_branch"
    /\ \E c \in Conns : /\ cstate[c] = "open"
                        /\ identified[c]
                        /\ heartbeats_sent[c] = 1

\* the step in which increment() runs, and the one in which sendto is called
Increments == apc = "sleep" /\ apc' = "fetch"
CallsSendto == Len(sent_log') > Len(sent_log)
\* the last argument of sendto
LastSent == sent_log[Len(sent_log)]

\* C15: increment sets timestamp to (timestamp + 960) mod 2^32, so that after
\* n frames timestamp is (960 * n) mod 2^32.
C15_TimestampModulo ==
    [][Increments =>
         /\ SampleDelta = 960
         /\ timestamp' = <<WAdd(timestamp, 960)[1] % W16, WAdd(timestamp, 960)[2]>>
         /\ timestamp' = <<WMul(page_index', 960)[1] % W16,
                           WMul(page_index', 960)[2]>>]_vars

\* C16: every increment adds one to page_index, which never wraps, and leaves
\* sequence = page_index mod 2^16, within [0, 2^16).
C16_SequenceModulo ==
    [][/\ Increments => /\ page_index' = page_index + 1
                        /\ sequence' = (sequence + 1) % 65536
       /\ ~Increments => (page_index' = page_index /\ sequence' = sequence)
       /\ sequence' = page_index' % 65536
       /\ sequence' \in 0..65535]_vars

\* the sequence is back at 0 after 65536 frames
C16_Witness == page_index = 65536 /\ sequence = 0 /\ Len(sent_log) = 1

\* C17: a packet starts with 12 bytes: 0x80, 0x78, then sequence (2 bytes),
\* timestamp (4 bytes) and ssrc (4 bytes), big-endian, the values being those
\* before the frame's increment.
C17_HeaderBytes ==
    apc = "sleep" =>
        LET h == LastSent[1].header
        IN /\ Len(h) = 12
           /\ \A i \in 1..12 : h[i] \in 0..255
           /\ h[1] = 128
           /\ h[2] = 120
           /\ h[3] * 256 + h[4] = sequence
           /\ h[5] * 256 + h[6] = timestamp[1]
           /\ h[7] * 256 + h[8] = timestamp[2]
           /\ h[9] * 256 + h[10] = ssrc[1]
           /\ h[11] * 256 + h[12] = ssrc[2]

\* sequence = 1, timestamp = 960, ssrc = 0xAABBCCDD:
\* the header 80 78 00 01 00 00 03 C0 AA BB CC DD was sent
C17_Witness ==
    /\ apc = "sleep"
    /\ sequence = 1
    /\ LastSent[1].header = <<128, 120, 0, 1, 0, 0, 3, 192, 170, 187, 204, 221>>

\* C18: after sending frame k at time now the player sleeps for
\* (started_at + k * D - now) + D, and with a delay >= 0 the sleep ends at
\* started_at + (k + 1) * D.
C18_PacingDelay ==
    [][/\ (CallsSendto /\ apc' = "sleep")
            => delay' = (started_at + page_index * DURATION - now) + DURATION
       /\ (Increments /\ delay >= 0)
            => now = started_at + (page_index + 1) * DURATION]_vars

\* frame 0 was sent 5 ms (one unit) after started_at: the sleep is 15 ms
C18_Witness ==
    /\ apc = "sleep"
    /\ page_index = 0
    /\ Len(sent_log) = 1
    /\ now = started_at + 1
    /\ delay = 3

\* C19: nothing is handed to the transport while the gate is closed, and the
\* frame held while the gate was closed is the one sent when start() resumes.
C19_GateBeforeSend ==
    [][CallsSendto => /\ gate
                      /\ LastSent' # None
                            => LastSent'[1].ciphertext.box = stream_taken']_vars

\* C20: with an unsupported mode playback fails before it takes a frame from
\* the stream or calls sendto.
C20_ModeCheckedAtStart ==
    mode # XSALSA20_POLY1305 => (stream_taken = 0 /\ sent_log = <<>>)

\* the step in which select returns to run()
SelectReturns == pc = "select" /\ pc' \in {"drain", "send", "top"}

\* C22: every connection the cycle marked ready (next_beat <= 0, so in wlist)
\* has send_heartbeat called in that cycle: select hands all of wlist on.
C22_ReadyIsSent ==
    [][SelectReturns => wready' = wlist]_vars

\* the steps in which send_heartbeat stores heartbeats_sent, on either thread
WorkerStores == pc = "send_store" /\ pc' # pc
HandlerStores == epc = "hb_store" /\ epc' # epc

\* C23: heartbeats_sent counts the frames written: every send_heartbeat, which
\* writes one frame, leaves the counter one above its value at the store, and
\* heartbeat_last_sent at the time of the write.
C23_SentCountsWrites ==
    [][/\ WorkerStores =>
            /\ heartbeats_sent'[Head(wready)] = heartbeats_sent[Head(wready)] + 1
            /\ heartbeat_last_sent'[Head(wready)] = now
       /\ HandlerStores =>
            /\ heartbeats_sent'[ecur] = heartbeats_sent[ecur] + 1
            /\ heartbeat_last_sent'[ecur] = now]_vars

\* C25: the worker calls send_heartbeat only on a connection whose interval is
\* known and, once a heartbeat was sent, not before heartbeat_last_acked +
\* heartbeat_interval.
C25_NeverEarly ==
    [][WorkerCallsSend =>
         LET c == Head(wready)
         IN /\ heartbeat_interval[c] # Inf
            /\ heartbeats_sent[c] >= 1 =>
                 now >= FAdd(heartbeat_last_acked[c], heartbeat_interval[c])]_vars

\* the lateness of the last frame sent: its time past started_at + k * D
Overrun == sent_at[Len(sent_at)].at - (started_at + page_index * DURATION)

\* C26: frame j is never sent before started_at + j * D; a delay <= 0 is a
\* sleep of zero; and after a frame sent late by less than D the next frame is
\* due at started_at + (k + 1) * D, not later by the overrun.
C26_NoAccumulation ==
    [][/\ \A i \in 1..Len(sent_at') :
            sent_at'[i].at >= started_at' + sent_at'[i].frame * DURATION
       /\ (CallsSendto /\ apc' = "sleep" /\ delay' <= 0) => wake_at' = now
       /\ (Increments /\ Overrun \in 0..(DURATION - 1))
            => now = started_at + (page_index + 1) * DURATION]_vars

\* frame 0 was sent late by less than D and frame 1 exactly at started_at + D
C26_Witness ==
    /\ Len(sent_at) = 2
    /\ sent_at[1].frame = 0
    /\ sent_at[1].at - started_at \in 1..(DURATION - 1)
    /\ sent_at[2].frame = 1
    /\ sent_at[2].at = started_at + DURATION

\* C27: the schedule is anchored at started_at alone: a frame sent when the
\* next one is already due (the time with the gate closed included) is followed
\* by no sleep, and the first frame sent ahead of the schedule by a sleep up to
\* started_at + (k + 1) * D.
C27_PauseCatchUp ==
    apc = "sleep" =>
        LET at == sent_at[Len(sent_at)].at
            due == started_at + (page_index + 1) * DURATION
        IN wake_at = IF at >= due THEN at ELSE due

\* start() waited two frame durations for the gate: frames 0 and 1 were sent
\* back to back when it opened, frame 2 at the same time, on schedule again,
\* and the player sleeps up to started_at + 3 * D
C27_Witness ==
    /\ apc = "sleep"
    /\ Len(sent_at) = 3
    /\ sent_at[1] = [frame |-> 0, at |-> started_at + 2 * DURATION,
                     waited |-> TRUE]
    /\ sent_at[2] = [frame |-> 1, at |-> started_at + 2 * DURATION,
                     waited |-> FALSE]
    /\ sent_at[3] = [frame |-> 2, at |-> started_at + 2 * DURATION,
                     waited |-> FALSE]
    /\ wake_at = started_at + 3 * DURATION

\* the step in which an event is dispatched
Dispatches(key) == dispatched'[key] = dispatched[key] + 1

\* C21: a function given to once(name) is invoked by the first dispatch of
\* that event after the registration (once more than its on() registrations
\* invoke it), is in no list of listeners after that dispatch as a once
\* wrapper, and later dispatches invoke it only through its on() registrations
C21_OnceInvokedOnce ==
    [][\A key \in LowerNames, func \in Funcs :
          Dispatches(key) =>
             /\ calls'[func] = calls[func] + Count(func, ListenersOf(key))
                                + (IF <<key, func>> \in once_pending THEN 1 ELSE 0)
             /\ key \in DOMAIN listeners' =>
                   Count(callback(func), listeners'[key]) = 0]_vars

\* an acknowledged connection the worker has to send on again within the
\* time modelled: open, registered, interval known, every heartbeat sent
\* acknowledged, and no handler running
Acknowledged(c) ==
    /\ cstate[c] = "open"
    /\ c \in Range(connections)
    /\ heartbeat_interval[c] # Inf
    /\ heartbeats_acked[c] >= 1
    /\ heartbeats_sent[c] = heartbeats_acked[c]
    /\ heartbeat_last_acked[c] # Inf
    /\ heartbeat_last_acked[c] + heartbeat_interval[c] <= MaxTime
    /\ epc = "idle"

\* a further heartbeat was sent on the connection, or it was closed, or the
\* worker was told to stop
BeatsAgain(c) ==
    \/ heartbeats_sent[c] > heartbeats_acked[c]
    \/ cstate[c] # "open"
    \/ shutting_down

\* C24: heartbeating never stalls: under fair scheduling, after each
\* acknowledgement on an open, registered connection with a known interval a
\* further heartbeat is sent on it
C24_NeverStalls == \A c \in Conns : Acknowledged(c) ~> BeatsAgain(c)

====
